---- MODULE Spec2Model ----
(***************************************************************************)
(* A model of the two scripts of the repository:                           *)
(*    variant 1  src/code_combiner.py                                      *)
(*    variant 2  src/code_combiner_02.py                                   *)
(* Paths, rules and names are strings, as in the scripts; the string       *)
(* functions the scripts use (strip, startswith, split, join, basename,    *)
(* fnmatch, PurePath.match, sorted) are operators computed character by    *)
(* character.                                                              *)
(***************************************************************************)
EXTENDS Integers, Sequences, FiniteSets, TLC

VARIABLES
    variant,        \* 1: code_combiner.py, 2: code_combiner_02.py
    root,           \* the root directory as the script names it
    fs,             \* the directory tree under the root: records [path, kind]
    scan,           \* the order in which the file system enumerates a directory
    unreadable,     \* entries that cannot be opened or listed
    gitignore,      \* [exists, lines]: the rules file at the root
    clock,          \* the real-time clock, in seconds since midnight
    pc,             \* position of the current run in the script
    runs,           \* number of runs started
    ignore_patterns,\* the loaded rules (a sequence; variant 1 uses it as a set)
    file_list,      \* variant 2: result of get_all_files
    content,        \* the content section: sequence of [path, header, body]
    tree,           \* the tree rendering: sequence of [line, path, parent, isdir]
    manifest,       \* the manifest section: sequence of relative paths
    listed,         \* [walk, tree]: directories each traversal has listed
    output_name,    \* the output file's path relative to the root
    history,        \* the artifacts written so far, in order
    overwritten,    \* output paths that were opened for writing while they existed
    fpath,          \* filter specification: the path handed to is_ignored
    frules,         \* filter specification: the rules handed to is_ignored
    fresult         \* filter specification: <<>> or <<result>>

vars == <<variant, root, fs, scan, unreadable, gitignore, clock, pc, runs,
          ignore_patterns, file_list, content, tree, manifest, listed,
          output_name, history, overwritten, fpath, frules, fresult>>

runVars == <<variant, root, fs, scan, unreadable, gitignore, clock, pc, runs,
             ignore_patterns, file_list, content, tree, manifest, listed,
             output_name, history, overwritten>>

filterVars == <<fpath, frules, fresult>>

-----------------------------------------------------------------------------
(* Characters and strings *)

\* The ASCII characters the names, rules and lines of the model use, in
\* code-point order.
AsciiOrder ==
    " !#*+-./0123456789:<>?ABCDEFGHIJKLMNOPQRSTUVWXYZ[]_abcdefghijklmnopqrstuvwxyz|"

Char(s, i) == SubSeq(s, i, i)

CharOrd ==
    [c \in {Char(AsciiOrder, i) : i \in 1..Len(AsciiOrder)} |->
        CHOOSE i \in 1..Len(AsciiOrder) : Char(AsciiOrder, i) = c]

\* ord(c)
Ord(c) == CharOrd[c]

\* str.startswith
startswith(s, p) == Len(p) <= Len(s) /\ SubSeq(s, 1, Len(p)) = p

\* str.endswith
endswith(s, p) == Len(p) <= Len(s) /\ SubSeq(s, Len(s) - Len(p) + 1, Len(s)) = p

\* Python's str < str: by code point, a proper prefix first.
RECURSIVE StrLessFrom(_, _, _)
StrLessFrom(a, b, i) ==
    IF i > Len(b) THEN FALSE
    ELSE IF i > Len(a) THEN TRUE
    ELSE IF Char(a, i) = Char(b, i) THEN StrLessFrom(a, b, i + 1)
    ELSE Ord(Char(a, i)) < Ord(Char(b, i))

StrLess(a, b) == StrLessFrom(a, b, 1)

\* str.strip() of a line of text: leading and trailing blanks removed.
RECURSIVE lstrip(_)
lstrip(s) == IF Len(s) > 0 /\ Char(s, 1) = " " THEN lstrip(Tail(s)) ELSE s

RECURSIVE rstrip(_, _)
rstrip(s, c) ==
    IF Len(s) > 0 /\ Char(s, Len(s)) = c THEN rstrip(SubSeq(s, 1, Len(s) - 1), c) ELSE s

strip(s) == rstrip(lstrip(s), " ")

\* str.split(sep) for a one-character separator: the pieces, empty ones kept.
RECURSIVE SplitFrom(_, _, _, _)
SplitFrom(s, sep, i, start) ==
    IF i > Len(s) THEN <<SubSeq(s, start, Len(s))>>
    ELSE IF Char(s, i) = sep
         THEN <<SubSeq(s, start, i - 1)>> \o SplitFrom(s, sep, i + 1, i + 1)
         ELSE SplitFrom(s, sep, i + 1, start)

split(s, sep) == SplitFrom(s, sep, 1, 1)

Range(q) == {q[i] : i \in 1..Len(q)}

\* os.path.basename: what follows the last separator.
basename(p) == LET parts == split(p, "/") IN parts[Len(parts)]

\* os.path.join(a, b)
join(a, b) ==
    IF startswith(b, "/") THEN b
    ELSE IF a = "" \/ endswith(a, "/") THEN a \o b
    ELSE a \o "/" \o b

\* sorted(S) for a set of strings.
RECURSIVE sorted(_)
sorted(S) ==
    IF S = {} THEN <<>>
    ELSE LET m == CHOOSE x \in S : \A y \in S \ {x} : StrLess(x, y)
         IN <<m>> \o sorted(S \ {m})

-----------------------------------------------------------------------------
(* fnmatch *)

\* The index of the "]" closing the character class opened at p[j] = "[",
\* or 0 when the class is not closed (fnmatch.translate then takes "[" as a
\* literal).  A "!" and then a "]" right after the "[" belong to the class.
RECURSIVE FindClose(_, _)
FindClose(p, k) ==
    IF k > Len(p) THEN 0
    ELSE IF Char(p, k) = "]" THEN k
    ELSE FindClose(p, k + 1)

ClassEnd(p, j) ==
    LET a == IF j + 1 <= Len(p) /\ Char(p, j + 1) = "!" THEN j + 2 ELSE j + 1
        b == IF a <= Len(p) /\ Char(p, a) = "]" THEN a + 1 ELSE a
    IN FindClose(p, b)

\* Whether character c belongs to the class body `stuff` (ranges lo-hi).
RECURSIVE InClass(_, _, _)
InClass(c, stuff, k) ==
    IF k > Len(stuff) THEN FALSE
    ELSE IF k + 2 <= Len(stuff) /\ Char(stuff, k + 1) = "-"
         THEN \/ /\ Ord(Char(stuff, k)) <= Ord(c)
                 /\ Ord(c) <= Ord(Char(stuff, k + 2))
              \/ InClass(c, stuff, k + 3)
         ELSE Char(stuff, k) = c \/ InClass(c, stuff, k + 1)

ClassMatches(c, p, j, e) ==
    LET stuff == SubSeq(p, j + 1, e - 1) IN
    IF stuff = "!" THEN TRUE
    ELSE IF Char(stuff, 1) = "!" THEN ~InClass(c, stuff, 2)
    ELSE InClass(c, stuff, 1)

\* Whether s[i..] matches the glob p[j..]: "*" any run of characters (the
\* separator included), "?" any one character, "[...]" a class.
RECURSIVE GlobFrom(_, _, _, _)
GlobFrom(s, i, p, j) ==
    IF j > Len(p) THEN i > Len(s)
    ELSE LET c == Char(p, j) IN
         IF c = "*" THEN \E k \in i..(Len(s) + 1) : GlobFrom(s, k, p, j + 1)
         ELSE IF c = "?" THEN i <= Len(s) /\ GlobFrom(s, i + 1, p, j + 1)
         ELSE IF c = "[" /\ ClassEnd(p, j) > 0
              THEN /\ i <= Len(s)
                   /\ ClassMatches(Char(s, i), p, j, ClassEnd(p, j))
                   /\ GlobFrom(s, i + 1, p, ClassEnd(p, j) + 1)
         ELSE i <= Len(s) /\ Char(s, i) = c /\ GlobFrom(s, i + 1, p, j + 1)

\* fnmatch.fnmatch(name, pat) on a POSIX platform (normcase is the identity).
fnmatch(name, pat) == GlobFrom(name, 1, pat, 1)

-----------------------------------------------------------------------------
(* The filters *)

\* is_ignored that takes a folder rule for a prefix of a segment.
RECURSIVE is_ignored_02_prefix(_, _, _)
is_ignored_02_prefix(path, patterns, k) ==
    IF k > Len(patterns) THEN FALSE
    ELSE LET folder  == endswith(patterns[k], "/")
             pattern == IF folder THEN rstrip(patterns[k], "/") ELSE patterns[k]
         IN IF folder /\ \E seg \in Range(split(path, "/")) : startswith(seg, pattern)
            THEN TRUE
            ELSE IF fnmatch(path, pattern) \/ fnmatch(basename(path), pattern) THEN TRUE
            ELSE is_ignored_02_prefix(path, patterns, k + 1)

\* is_ignored that matches a rule against the whole path only.
RECURSIVE is_ignored_02_whole(_, _, _)
is_ignored_02_whole(path, patterns, k) ==
    IF k > Len(patterns) THEN FALSE
    ELSE LET folder  == endswith(patterns[k], "/")
             pattern == IF folder THEN rstrip(patterns[k], "/") ELSE patterns[k]
         IN IF folder /\ pattern \in Range(split(path, "/")) THEN TRUE
            ELSE IF fnmatch(path, pattern) THEN TRUE
            ELSE is_ignored_02_whole(path, patterns, k + 1)

\* code_combiner_02.py is_ignored: the rules in file order; a rule ending with
\* "/" is stripped of its trailing separators and compared with the path's
\* segments, and then, like every rule, matched as a glob against the whole
\* path and against the basename.
RECURSIVE is_ignored_02_from(_, _, _)
is_ignored_02_from(path, patterns, k) ==
    IF k > Len(patterns) THEN FALSE
    ELSE LET folder  == endswith(patterns[k], "/")
             pattern == IF folder THEN rstrip(patterns[k], "/") ELSE patterns[k]
         IN IF folder /\ pattern \in Range(split(path, "/")) THEN TRUE
            ELSE IF fnmatch(path, pattern) \/ fnmatch(basename(path), pattern) THEN TRUE
            ELSE is_ignored_02_from(path, patterns, k + 1)

is_ignored_02(path, patterns) == is_ignored_02_from(path, patterns, 1)

\* pathlib's parts of a path string: the segments without the empty ones and
\* the "." ones, after the root "/" of an absolute path.
PathParts(p) ==
    LET raw  == split(p, "/")
        kept == SelectSeq(raw, LAMBDA x : x # "" /\ x # ".")
    IN IF startswith(p, "/") THEN <<"/">> \o kept ELSE kept

\* PurePath.match: a relative pattern is matched segment by segment from the
\* right, an absolute one against the whole path.
PathMatch(path, pat) ==
    LET parts == PathParts(path)
        pp    == PathParts(pat)
        n     == Len(parts)
        m     == Len(pp)
    IN /\ m > 0
       /\ IF startswith(pat, "/")
          THEN /\ n > 0 /\ parts[1] = "/"
               /\ m = n
               /\ \A i \in 2..m : fnmatch(parts[i], pp[i])
          ELSE /\ m <= n
               /\ \A i \in 1..m : fnmatch(parts[n - m + i], pp[i])

\* code_combiner.py is_ignored, for a path of the given parts: some rule
\* matches the path or equals one of its parts, or some part is hidden.
is_ignored_parts(path, parts, ignored_paths) ==
    \/ \E k \in 1..Len(ignored_paths) :
          \/ PathMatch(path, ignored_paths[k])
          \/ \E i \in 1..Len(parts) : parts[i] = ignored_paths[k]
    \/ \E i \in 1..Len(parts) : startswith(parts[i], ".")

is_ignored_01(path, ignored_paths) ==
    is_ignored_parts(path, PathParts(path), ignored_paths)

\* The rules a rules file holds: its lines stripped, without the empty ones
\* and the comments (get_ignored_paths, load_gitignore).
load_gitignore(file) ==
    IF file.exists
    THEN SelectSeq([i \in 1..Len(file.lines) |-> strip(file.lines[i])],
                   LAMBDA line : line # "" /\ ~startswith(line, "#"))
    ELSE <<>>

\* Path.suffix: the last "." of the name and what follows, unless the name
\* starts or ends with it.
RECURSIVE LastDot(_, _)
LastDot(name, i) ==
    IF i < 1 THEN 0 ELSE IF Char(name, i) = "." THEN i ELSE LastDot(name, i - 1)

suffix(path) ==
    LET name == basename(path)
        i    == LastDot(name, Len(name))
    IN IF i > 1 /\ i < Len(name) THEN SubSeq(name, i, Len(name)) ELSE ""

\* The extensions concatenate_code_files keeps.
Allowlist == {".py", ".js", ".java", ".html", ".css"}

output_folder == "output_code_combiner"

-----------------------------------------------------------------------------
(* The directory tree *)

\* The directory an entry lies in ("" is the root).
parent(p) ==
    IF Len(split(p, "/")) = 1 THEN "" ELSE SubSeq(p, 1, Len(p) - Len(basename(p)) - 1)

isdir(F, p) == [path |-> p, kind |-> "dir"] \in F

Names(F, dir) == {basename(e.path) : e \in {x \in F : parent(x.path) = dir}}

Reverse(q) == [i \in 1..Len(q) |-> q[Len(q) + 1 - i]]

\* os.scandir / os.listdir / Path.iterdir: the names of a directory in the
\* order the file system gives them.
listdir(F, order, dir) ==
    IF order = "asc" THEN sorted(Names(F, dir)) ELSE Reverse(sorted(Names(F, dir)))

\* os.path.relpath(path, ".") of a path os.walk(".") produced.
relpath(p) == IF startswith(p, "./") THEN SubSeq(p, 3, Len(p)) ELSE p

\* The text of a file, as a token.
FileText(p) == "<" \o p \o ">"

\* The connectors and continuations of the tree rendering (ASCII for the
\* box-drawing glyphs of the scripts).
Connector(is_last) == IF is_last THEN "+-- " ELSE "|-- "
Extension(is_last) == IF is_last THEN "    " ELSE "|   "

-----------------------------------------------------------------------------
(* Results of a traversal *)

\* What a traversal has produced: its output so far, the directories it has
\* listed, and whether an exception has ended it.
Result(out, dirs, failed) == [out |-> out, listed |-> dirs, failed |-> failed]

Nothing == Result(<<>>, {}, FALSE)

Raised == Result(<<>>, {}, TRUE)

\* `first`, and then `rest` unless an exception has ended `first`.
AndThen(first, rest) ==
    IF first.failed THEN first
    ELSE Result(first.out \o rest.out, first.listed \cup rest.listed, rest.failed)

Prefixed(dir, names) == [i \in 1..Len(names) |-> join(dir, names[i])]

-----------------------------------------------------------------------------
(* code_combiner_02.py *)

\* A walk that goes on into every directory (no dirs[:] assignment).
dirs_unpruned_02(F, rel_dir, names, patterns) ==
    SelectSeq(names, LAMBDA d : isdir(F, join(rel_dir, d)))

\* get_all_files, line 50: the directories os.walk goes on into.
dirs_kept_02(F, rel_dir, names, patterns) ==
    SelectSeq(names, LAMBDA d :
        /\ isdir(F, join(rel_dir, d))
        /\ ~(startswith(d, ".") \/ is_ignored_02(join(rel_dir, d), patterns)))

\* get_all_files, lines 51-55: the files of a directory that are collected.
files_kept_02(F, rel_dir, names, patterns) ==
    SelectSeq(names, LAMBDA f :
        /\ ~isdir(F, join(rel_dir, f))
        /\ ~(startswith(f, ".") \/ is_ignored_02(join(rel_dir, f), patterns)))

RECURSIVE get_all_files_from(_, _, _, _, _, _)
RECURSIVE get_all_files_dirs(_, _, _, _, _, _, _, _)

\* One directory of os.walk in get_all_files, and the directories below it:
\* the files kept, in walk order, and the directories listed.  A directory
\* that cannot be listed yields nothing (os.walk ignores the error).
get_all_files_from(F, bad, order, current_dir, rel_dir, patterns) ==
    IF rel_dir \in bad THEN Nothing
    ELSE AndThen(
           Result(Prefixed(current_dir,
                           files_kept_02(F, rel_dir, listdir(F, order, rel_dir), patterns)),
                  {rel_dir}, FALSE),
           get_all_files_dirs(F, bad, order, current_dir, rel_dir, patterns,
                              dirs_kept_02(F, rel_dir, listdir(F, order, rel_dir), patterns),
                              1))

get_all_files_dirs(F, bad, order, current_dir, rel_dir, patterns, dirs, k) ==
    IF k > Len(dirs) THEN Nothing
    ELSE AndThen(
           get_all_files_from(F, bad, order, join(current_dir, dirs[k]),
                              join(rel_dir, dirs[k]), patterns),
           get_all_files_dirs(F, bad, order, current_dir, rel_dir, patterns, dirs, k + 1))

get_all_files(F, bad, order, patterns) ==
    get_all_files_from(F, bad, order, ".", "", patterns)

\* combine_files, lines 66-72: the header of a file and its text, or an
\* error marker when it cannot be opened.
combined(bad, rel_path) ==
    [path   |-> rel_path,
     header |-> "# File: " \o rel_path,
     body   |-> IF rel_path \in bad THEN "# [Error reading file]" ELSE FileText(rel_path)]

Blocks(bad, ordered) == [i \in 1..Len(ordered) |-> combined(bad, relpath(ordered[i]))]

\* combine_files: every file of the list, in sorted order.
combine_files(bad, files) == Blocks(bad, sorted(Range(files)))

\* The entries drawn without the hidden-name test.
entries_02_with_hidden(F, rel_path, patterns) ==
    SelectSeq(sorted(Names(F, rel_path)), LAMBDA entry :
        ~is_ignored_02(join(rel_path, entry), patterns))

\* generate_tree_lines, lines 84-88: the entries of a directory that are
\* drawn, sorted by name.
entries_02(F, rel_path, patterns) ==
    SelectSeq(sorted(Names(F, rel_path)), LAMBDA entry :
        ~(startswith(entry, ".") \/ is_ignored_02(join(rel_path, entry), patterns)))

\* A line of the tree rendering, with the entry it draws.
Line(F, prefix, is_last, name, full_rel, rel_path) ==
    [line   |-> prefix \o Connector(is_last) \o name,
     path   |-> full_rel,
     parent |-> rel_path,
     isdir  |-> isdir(F, full_rel)]

RECURSIVE generate_tree_lines(_, _, _, _, _)
RECURSIVE generate_tree_entries(_, _, _, _, _, _, _)

\* generate_tree_lines: the lines of one directory and of the directories
\* below it.  os.listdir of a directory that cannot be listed raises.
generate_tree_lines(F, bad, rel_path, prefix, patterns) ==
    IF rel_path \in bad THEN Raised
    ELSE AndThen(Result(<<>>, {rel_path}, FALSE),
                 generate_tree_entries(F, bad, rel_path, prefix, patterns,
                                       entries_02(F, rel_path, patterns), 1))

generate_tree_entries(F, bad, rel_path, prefix, patterns, entries, i) ==
    IF i > Len(entries) THEN Nothing
    ELSE AndThen(
           AndThen(Result(<<Line(F, prefix, i = Len(entries), entries[i],
                                 join(rel_path, entries[i]), rel_path)>>, {}, FALSE),
                   IF isdir(F, join(rel_path, entries[i]))
                   THEN generate_tree_lines(F, bad, join(rel_path, entries[i]),
                                            prefix \o Extension(i = Len(entries)),
                                            patterns)
                   ELSE Nothing),
           generate_tree_entries(F, bad, rel_path, prefix, patterns, entries, i + 1))

generate_tree_map(F, bad, patterns) == generate_tree_lines(F, bad, "", "", patterns)

-----------------------------------------------------------------------------
(* code_combiner.py *)

\* The entries sorted with the files before the directories.
entries_01_files_first(F, dir_path, kept) ==
    sorted({n \in kept : ~isdir(F, join(dir_path, n))})
    \o sorted({n \in kept : isdir(F, join(dir_path, n))})

\* tree, lines 26-29: the entries of a directory that are drawn, the
\* directories before the files, each by name.
entries_01(F, dir_path, kept) ==
    sorted({n \in kept : isdir(F, join(dir_path, n))})
    \o sorted({n \in kept : ~isdir(F, join(dir_path, n))})

RECURSIVE tree_from(_, _, _, _, _)
RECURSIVE tree_entries(_, _, _, _, _, _, _)

\* generate_folder_map.tree: the lines of one directory and of the
\* directories below it.  iterdir of a directory that cannot be listed raises.
tree_from(F, bad, dir_path, prefix, ignored_paths) ==
    IF dir_path \in bad THEN Raised
    ELSE AndThen(Result(<<>>, {dir_path}, FALSE),
                 tree_entries(F, bad, dir_path, prefix, ignored_paths,
                              entries_01(F, dir_path,
                                         {n \in Names(F, dir_path) :
                                            ~is_ignored_01(join(dir_path, n),
                                                           ignored_paths)}),
                              1))

tree_entries(F, bad, dir_path, prefix, ignored_paths, entries, index) ==
    IF index > Len(entries) THEN Nothing
    ELSE AndThen(
           AndThen(Result(<<Line(F, prefix, index = Len(entries), entries[index],
                                 join(dir_path, entries[index]), dir_path)>>,
                          {}, FALSE),
                   IF isdir(F, join(dir_path, entries[index]))
                   THEN tree_from(F, bad, join(dir_path, entries[index]),
                                  prefix \o Extension(index = Len(entries)),
                                  ignored_paths)
                   ELSE Nothing),
           tree_entries(F, bad, dir_path, prefix, ignored_paths, entries, index + 1))

generate_folder_map(F, bad, ignored_paths) == tree_from(F, bad, "", "", ignored_paths)

\* concatenate_code_files, line 48: the directories os.walk goes on into,
\* filtered by their path under the root as the script names it.
dirs_kept_01(F, dirpath, rel_dir, names, ignored_paths) ==
    SelectSeq(names, LAMBDA d :
        /\ isdir(F, join(rel_dir, d))
        /\ ~is_ignored_01(join(dirpath, d), ignored_paths))

\* The files included without the test of the extension.
files_kept_01_any_suffix(F, rel_dir, names, ignored_paths) ==
    SelectSeq(Prefixed(rel_dir, names), LAMBDA rel_path :
        /\ ~isdir(F, rel_path)
        /\ ~is_ignored_01(rel_path, ignored_paths))

\* concatenate_code_files, lines 50-53: the files of a directory that are
\* included, by their path relative to the root and their extension.
files_kept_01(F, rel_dir, names, ignored_paths) ==
    SelectSeq(Prefixed(rel_dir, names), LAMBDA rel_path :
        /\ ~isdir(F, rel_path)
        /\ ~is_ignored_01(rel_path, ignored_paths)
        /\ suffix(rel_path) \in Allowlist)

\* concatenate_code_files, lines 54-58: a file is listed, then opened and
\* read; open() of a file that cannot be opened raises.
RECURSIVE included_from(_, _, _)
included_from(bad, kept, i) ==
    IF i > Len(kept) THEN Nothing
    ELSE IF kept[i] \in bad
         THEN Result(<<[path |-> kept[i], header |-> "", body |-> ""]>>, {}, TRUE)
         ELSE AndThen(Result(<<[path   |-> kept[i],
                                header |-> "### File: " \o kept[i],
                                body   |-> FileText(kept[i])]>>, {}, FALSE),
                      included_from(bad, kept, i + 1))

RECURSIVE concatenate_from(_, _, _, _, _, _)
RECURSIVE concatenate_dirs(_, _, _, _, _, _, _, _)

\* One directory of os.walk in concatenate_code_files, and the directories
\* below it.  A directory that cannot be listed yields nothing (os.walk
\* ignores the error).
concatenate_from(F, bad, order, dirpath, rel_dir, ignored_paths) ==
    IF rel_dir \in bad THEN Nothing
    ELSE AndThen(
           AndThen(Result(<<>>, {rel_dir}, FALSE),
                   included_from(bad,
                                 files_kept_01(F, rel_dir, listdir(F, order, rel_dir),
                                               ignored_paths),
                                 1)),
           concatenate_dirs(F, bad, order, dirpath, rel_dir, ignored_paths,
                            dirs_kept_01(F, dirpath, rel_dir, listdir(F, order, rel_dir),
                                         ignored_paths),
                            1))

concatenate_dirs(F, bad, order, dirpath, rel_dir, ignored_paths, dirnames, k) ==
    IF k > Len(dirnames) THEN Nothing
    ELSE AndThen(
           concatenate_from(F, bad, order, join(dirpath, dirnames[k]),
                            join(rel_dir, dirnames[k]), ignored_paths),
           concatenate_dirs(F, bad, order, dirpath, rel_dir, ignored_paths, dirnames,
                            k + 1))

\* concatenate_code_files: the blocks of the files included, in walk order
\* (a block with an empty header is a file listed and not read).
concatenate_code_files(F, bad, order, rootdir, ignored_paths) ==
    concatenate_from(F, bad, order, rootdir, "", ignored_paths)

-----------------------------------------------------------------------------
(* The clock and the output name *)

Digit(d) == Char("0123456789", d + 1)

TwoDigits(n) == Digit((n \div 10) % 10) \o Digit(n % 10)

\* The day the runs of the model take place.
Today == "20240101"

\* datetime.now().strftime("%Y%m%d_%H%M%S") at `t` seconds after midnight.
strftime(t) ==
    Today \o "_" \o TwoDigits((t \div 3600) % 24) \o TwoDigits((t \div 60) % 60)
          \o TwoDigits(t % 60)

output_file_01(t) == join(output_folder, "combined_code_" \o strftime(t) \o ".txt")

output_file_02(t) == join(output_folder, "combined_output_" \o strftime(t) \o ".txt")

-----------------------------------------------------------------------------
(* The inputs of the model *)

\* How many runs the model follows, and how far its clock goes.
MaxRuns == 2
MaxClock == 1

Entries(dirs, files) ==
    {[path |-> d, kind |-> "dir"] : d \in dirs} \cup {[path |-> f, kind |-> "file"] : f \in files}

\* The directory trees the runs are given.
Trees ==
    { Entries({"src", "node_modules"},
              {"src/app.js", "node_modules/lib.js", "scratch.tmp", "README.md"}),
      Entries({"c"}, {"b.py", "a.py", "c/a.py", "c.txt"}),
      Entries({"a", "a/build", "a/buildx", "logs"},
              {"a/build/x.py", "a/buildx/x.py", "app.log", "logs/app.log"}),
      Entries({".git", "pkg", "pkg/.cache"},
              {".git/config.py", ".env", "pkg/.cache/m.py", "pkg/m.py"}) }

\* The rules files the runs are given (the lines of .gitignore).
RulesFiles ==
    { [exists |-> FALSE, lines |-> <<>>],
      [exists |-> TRUE,  lines |-> <<"node_modules/", "*.tmp">>],
      [exists |-> TRUE,  lines |-> <<"# build output", "", " build/ ", "*.log">>],
      [exists |-> TRUE,  lines |-> <<"build", "c/">>],
      [exists |-> TRUE,  lines |-> <<"*.py[co]", "logs/", "pkg">>],
      [exists |-> TRUE,  lines |-> <<"output_code_combiner/">>] }

\* The root as the script names it: "." for code_combiner_02.py; the
\* directory of the script (Path(__file__).parent) for code_combiner.py.
Roots(v) == IF v = 1 THEN {".", "/srv/build"} ELSE {"."}

ScanOrders == {"asc", "desc"}

\* The entries that may be unreadable (a directory that cannot be listed, a
\* file that cannot be opened); at most one of them is, in a run.
Faulty ==
    {"src", "src/app.js", "c", "a.py", "a/build", "logs/app.log", "pkg", "pkg/m.py"}

\* The rules file is an entry of the root like any other.
WithRulesFile(F, file) ==
    IF file.exists THEN F \cup {[path |-> ".gitignore", kind |-> "file"]} ELSE F

NoRun ==
    /\ ignore_patterns = <<>>
    /\ file_list = <<>>
    /\ content = <<>>
    /\ tree = <<>>
    /\ manifest = <<>>
    /\ listed = [walk |-> {}, tree |-> {}]
    /\ output_name = ""

NoFilter == fpath = "" /\ frules = <<>> /\ fresult = <<>>

Init ==
    /\ variant \in {1, 2}
    /\ root \in Roots(variant)
    /\ gitignore \in RulesFiles
    /\ \E T \in Trees :
          /\ fs = WithRulesFile(T, gitignore)
          /\ unreadable \in {{}} \cup {{e.path} : e \in {x \in T : x.path \in Faulty}}
    /\ scan \in ScanOrders
    /\ clock = 0
    /\ pc = "idle"
    /\ runs = 0
    /\ NoRun
    /\ history = <<>>
    /\ overwritten = {}
    /\ NoFilter

env == <<variant, root, scan, unreadable, gitignore>>

-----------------------------------------------------------------------------
(* The environment *)

\* The clock advances by a second.  A run reads the clock once, so a second
\* that passes during a run before it reads is one that passed before the run.
Tick ==
    /\ pc = "idle"
    /\ clock < MaxClock
    /\ clock' = clock + 1
    /\ UNCHANGED <<env, fs, pc, runs, ignore_patterns, file_list, content, tree,
                   manifest, listed, output_name, history, overwritten, filterVars>>

-----------------------------------------------------------------------------
(* A run of code_combiner_02.py (main) *)

\* main: load_gitignore, then the output folder is added to the rules.
LoadGitignore ==
    /\ variant = 2
    /\ pc \in {"idle", "aborted"}
    /\ runs < MaxRuns
    /\ runs' = runs + 1
    /\ ignore_patterns' =
          LET patterns == load_gitignore(gitignore) IN
          IF output_folder \notin Range(patterns)
          THEN Append(patterns, output_folder) ELSE patterns
    /\ file_list' = <<>> /\ content' = <<>> /\ tree' = <<>> /\ manifest' = <<>>
    /\ listed' = [walk |-> {}, tree |-> {}]
    /\ output_name' = ""
    /\ pc' = "loaded"
    /\ UNCHANGED <<env, fs, clock, history, overwritten, filterVars>>

GetAllFiles ==
    /\ pc = "loaded"
    /\ \E r \in {get_all_files(fs, unreadable, scan, ignore_patterns)} :
          /\ file_list' = r.out
          /\ listed' = [listed EXCEPT !.walk = r.listed]
    /\ pc' = "walked"
    /\ UNCHANGED <<env, fs, clock, runs, ignore_patterns, content, tree, manifest,
                   output_name, history, overwritten, filterVars>>

CombineFiles ==
    /\ pc = "walked"
    /\ content' = combine_files(unreadable, file_list)
    /\ pc' = "combined"
    /\ UNCHANGED <<env, fs, clock, runs, ignore_patterns, file_list, tree, manifest,
                   listed, output_name, history, overwritten, filterVars>>

\* generate_tree_map; an exception of os.listdir ends the run.
GenerateTreeMap ==
    /\ pc = "combined"
    /\ \E r \in {generate_tree_map(fs, unreadable, ignore_patterns)} :
          /\ tree' = r.out
          /\ listed' = [listed EXCEPT !.tree = r.listed]
          /\ pc' = IF r.failed THEN "aborted" ELSE "mapped"
    /\ UNCHANGED <<env, fs, clock, runs, ignore_patterns, file_list, content, manifest,
                   output_name, history, overwritten, filterVars>>

\* main: the sorted list of the files included, and the sections.
ListFiles ==
    /\ pc = "mapped"
    /\ manifest' = sorted({relpath(file_list[i]) : i \in 1..Len(file_list)})
    /\ pc' = "assembled"
    /\ UNCHANGED <<env, fs, clock, runs, ignore_patterns, file_list, content, tree,
                   listed, output_name, history, overwritten, filterVars>>

\* main: os.makedirs(output_dir, exist_ok = True), the timestamped name, and
\* the write.
WriteOutput ==
    /\ variant = 2
    /\ pc = "assembled"
    /\ \E name \in {output_file_02(clock)} :
          /\ output_name' = name
          /\ fs' = fs \cup {[path |-> output_folder, kind |-> "dir"],
                            [path |-> name, kind |-> "file"]}
          /\ overwritten' = IF [path |-> name, kind |-> "file"] \in fs
                            THEN overwritten \cup {name} ELSE overwritten
          /\ history' = Append(history, [name |-> name, run |-> runs, tree |-> tree,
                                         manifest |-> manifest, content |-> content])
    /\ pc' = "idle"
    /\ UNCHANGED <<env, clock, runs, ignore_patterns, file_list, content, tree,
                   manifest, listed, filterVars>>

-----------------------------------------------------------------------------
(* A run of code_combiner.py (__main__) *)

\* output_dir.mkdir(exist_ok=True) and the timestamped name.
MakeOutputDir ==
    /\ variant = 1
    /\ pc \in {"idle", "aborted"}
    /\ runs < MaxRuns
    /\ runs' = runs + 1
    /\ fs' = fs \cup {[path |-> output_folder, kind |-> "dir"]}
    /\ output_name' = output_file_01(clock)
    /\ ignore_patterns' = <<>>
    /\ file_list' = <<>> /\ content' = <<>> /\ tree' = <<>> /\ manifest' = <<>>
    /\ listed' = [walk |-> {}, tree |-> {}]
    /\ pc' = "named"
    /\ UNCHANGED <<env, clock, history, overwritten, filterVars>>

GetIgnoredPaths ==
    /\ pc = "named"
    /\ ignore_patterns' = load_gitignore(gitignore)
    /\ pc' = "rules"
    /\ UNCHANGED <<env, fs, clock, runs, file_list, content, tree, manifest, listed,
                   output_name, history, overwritten, filterVars>>

\* generate_folder_map; an exception of iterdir ends the run.
GenerateFolderMap ==
    /\ pc = "rules"
    /\ \E r \in {generate_folder_map(fs, unreadable, ignore_patterns)} :
          /\ tree' = r.out
          /\ listed' = [listed EXCEPT !.tree = r.listed]
          /\ pc' = IF r.failed THEN "aborted" ELSE "drawn"
    /\ UNCHANGED <<env, fs, clock, runs, ignore_patterns, file_list, content, manifest,
                   output_name, history, overwritten, filterVars>>

\* concatenate_code_files; an exception of open ends the run.
ConcatenateCodeFiles ==
    /\ pc = "drawn"
    /\ \E r \in {concatenate_code_files(fs, unreadable, scan, root, ignore_patterns)} :
          /\ manifest' = [i \in 1..Len(r.out) |-> r.out[i].path]
          /\ content' = SelectSeq(r.out, LAMBDA block : block.header # "")
          /\ listed' = [listed EXCEPT !.walk = r.listed]
          /\ pc' = IF r.failed THEN "aborted" ELSE "joined"
    /\ UNCHANGED <<env, fs, clock, runs, ignore_patterns, file_list, tree,
                   output_name, history, overwritten, filterVars>>

\* open(code_output_file, 'w') and write.
WriteCombinedCode ==
    /\ variant = 1
    /\ pc = "joined"
    /\ fs' = fs \cup {[path |-> output_name, kind |-> "file"]}
    /\ overwritten' = IF [path |-> output_name, kind |-> "file"] \in fs
                      THEN overwritten \cup {output_name} ELSE overwritten
    /\ history' = Append(history, [name |-> output_name, run |-> runs, tree |-> tree,
                                   manifest |-> manifest, content |-> content])
    /\ pc' = "idle"
    /\ UNCHANGED <<env, clock, runs, ignore_patterns, file_list, content, tree,
                   manifest, listed, output_name, filterVars>>

-----------------------------------------------------------------------------
Next ==
    \/ Tick
    \/ LoadGitignore
    \/ GetAllFiles
    \/ CombineFiles
    \/ GenerateTreeMap
    \/ ListFiles
    \/ WriteOutput
    \/ MakeOutputDir
    \/ GetIgnoredPaths
    \/ GenerateFolderMap
    \/ ConcatenateCodeFiles
    \/ WriteCombinedCode

Spec == Init /\ [][Next]_vars

-----------------------------------------------------------------------------
(* The filter on its own: is_ignored applied to a path and a rule set *)

FilterPaths ==
    {"app.log", "logs/app.log", "logs", "build", "a/build", "a/build/x.py",
     "a/buildx/x.py", "a/buildx", "x.egg", "a/x.egg/m.py", "src/app.js",
     ".env", ".git/config.py", "pkg/.cache/m.py", "m.pyc"}

FilterRules ==
    {"build/", "build//", "a/build/", "*.egg/", "b*/", "logs/", "*.log", "l*.log",
     "logs/*.log", "*/app.log", "build", "*.py[co]", "app.???", "src"}

FilterRuleSets ==
    {<<>>} \cup {<<r>> : r \in FilterRules} \cup {<<"*.tmp", r>> : r \in {"build/", "*.log"}}

InitFilter ==
    /\ variant \in {1, 2}
    /\ root = "."
    /\ gitignore = [exists |-> FALSE, lines |-> <<>>]
    /\ fs = {}
    /\ unreadable = {}
    /\ scan = "asc"
    /\ clock = 0
    /\ pc = "idle"
    /\ runs = 0
    /\ NoRun
    /\ history = <<>>
    /\ overwritten = {}
    /\ fpath \in FilterPaths
    /\ frules \in FilterRuleSets
    /\ fresult = <<>>

\* The is_ignored of the script.
is_ignored(v, path, rules) ==
    IF v = 1 THEN is_ignored_01(path, rules) ELSE is_ignored_02(path, rules)

ApplyFilter ==
    /\ fresult = <<>>
    /\ fresult' = <<is_ignored(variant, fpath, frules)>>
    /\ UNCHANGED <<runVars, fpath, frules>>

NextFilter == ApplyFilter

SpecFilter == InitFilter /\ [][NextFilter]_vars

-----------------------------------------------------------------------------
(* What the claims speak of *)

Segments(p) == split(p, "/")

HasHiddenSegment(p) == \E i \in 1..Len(Segments(p)) : startswith(Segments(p)[i], ".")

\* p lies below directory d.
Under(p, d) == startswith(p, d \o "/")

Paths(q) == {q[i].path : i \in 1..Len(q)}

\* The paths the three sections of the current run show.
TreePaths == Paths(tree)
ManifestPaths == Range(manifest) \cup {relpath(file_list[i]) : i \in 1..Len(file_list)}
ContentPaths == Paths(content)
Shown == TreePaths \cup ManifestPaths \cup ContentPaths

\* The filter of the script applied to one entry, by its path from the root:
\* is_ignored in code_combiner.py, the hidden-name test and is_ignored in
\* code_combiner_02.py.
Excluded(p) ==
    IF variant = 1 THEN is_ignored_01(p, ignore_patterns)
    ELSE startswith(basename(p), ".") \/ is_ignored_02(p, ignore_patterns)

\* The entry and the directories above it, the root left out.
RECURSIVE Lineage(_)
Lineage(p) == IF parent(p) = "" THEN {p} ELSE {p} \cup Lineage(parent(p))

\* Neither the entry nor a directory above it is excluded.
Survives(p) == \A q \in Lineage(p) : ~Excluded(q)

\* The current run has loaded its rules.
RulesLoaded ==
    pc \in {"loaded", "walked", "combined", "mapped", "assembled", "rules", "drawn", "joined"}
    \/ (pc = "idle" /\ runs > 0)

\* The last run started has written its artifact.
Completed ==
    /\ pc = "idle"
    /\ history # <<>>
    /\ history[Len(history)].run = runs

\* The tree rendering of the current run is complete.
TreeDone == pc \in {"mapped", "assembled", "drawn", "joined"} \/ Completed

-----------------------------------------------------------------------------
(* C1 *)

\* C1: a directory the filter excludes is listed by neither traversal and is
\* not drawn, and no file below it, at any depth, is in the tree rendering,
\* the manifest or the content section, whatever the file's own name.
C1_Pruning ==
    RulesLoaded =>
    \A d \in fs :
        (d.kind = "dir" /\ Excluded(d.path)) =>
            /\ d.path \notin listed.walk \cup listed.tree \cup Shown
            /\ \A f \in fs :
                  Under(f.path, d.path) =>
                     f.path \notin listed.walk \cup listed.tree \cup Shown

\* A completed run over a tree with an excluded directory that holds a file
\* which is not hidden and which no rule matches, beside files that are shown.
C1_Witness ==
    /\ Completed
    /\ manifest # <<>>
    /\ \E d \in fs : \E f \in fs :
          /\ d.kind = "dir" /\ Excluded(d.path) /\ ~HasHiddenSegment(d.path)
          /\ f.kind = "file" /\ Under(f.path, d.path)
          /\ ~Excluded(f.path)

-----------------------------------------------------------------------------
(* C2 *)

-----------------------------------------------------------------------------
(* C3 *)

Drawn == {f \in fs : f.kind = "file" /\ f.path # output_name}

-----------------------------------------------------------------------------
(* C4 *)

\* C4: the manifest lists the files in strictly ascending lexicographic
\* order of their path from the root, whatever the order in which the file
\* system enumerated them.
C4_ManifestSorted ==
    \A i \in 1..Len(manifest) : \A j \in 1..Len(manifest) :
        i < j => StrLess(manifest[i], manifest[j])

-----------------------------------------------------------------------------
(* C5 *)

\* Lines i and j of the tree rendering draw entries of one directory, i first.
Siblings(i, j) == i < j /\ tree[i].parent = tree[j].parent

\* C5, as claimed: at every level of the tree rendering the directories come
\* before the files, and each group is in the order of the names.
C5_DirectoriesFirst ==
    \A i \in 1..Len(tree) : \A j \in 1..Len(tree) :
        Siblings(i, j) =>
            /\ ~(~tree[i].isdir /\ tree[j].isdir)
            /\ (tree[i].isdir = tree[j].isdir =>
                   StrLess(basename(tree[i].path), basename(tree[j].path)))

\* C5, amended: at every level of the tree rendering the directories are in
\* the order of their names, and so are the files; in code_combiner.py the
\* directories come before the files, in code_combiner_02.py directories and
\* files are drawn together in the order of their names.
C5_SiblingOrder ==
    \A i \in 1..Len(tree) : \A j \in 1..Len(tree) :
        Siblings(i, j) =>
            /\ (tree[i].isdir = tree[j].isdir =>
                   StrLess(basename(tree[i].path), basename(tree[j].path)))
            /\ (variant = 1 => ~(~tree[i].isdir /\ tree[j].isdir))
            /\ (variant = 2 => StrLess(basename(tree[i].path), basename(tree[j].path)))

\* A complete tree rendering of code_combiner_02.py with a file drawn before
\* a directory of the same level, and with two files of one level.
C5_Witness ==
    /\ variant = 2
    /\ TreeDone
    /\ \E i \in 1..Len(tree) : \E j \in 1..Len(tree) :
          Siblings(i, j) /\ ~tree[i].isdir /\ tree[j].isdir
    /\ \E i \in 1..Len(tree) : \E j \in 1..Len(tree) :
          Siblings(i, j) /\ ~tree[i].isdir /\ ~tree[j].isdir

-----------------------------------------------------------------------------
(* C6 *)

\* C6: a run is never ended by one entry that cannot be opened or listed.
C6_NeverAborts == (Cardinality(unreadable) <= 1) => pc # "aborted"

-----------------------------------------------------------------------------
(* C7 *)

\* C7: the output names of any two runs differ, and no run opens for writing
\* an artifact that is already there.
C7_UniqueNames ==
    /\ \A i \in 1..Len(history) : \A j \in 1..Len(history) :
          i # j => history[i].name # history[j].name
    /\ overwritten = {}

-----------------------------------------------------------------------------
(* C10 *)

InOutputFolder(p) == p = output_folder \/ Under(p, output_folder)

\* C10: the output folder and the artifacts of earlier runs are in no section
\* of a later run.
C10_SelfExclusion ==
    \A k \in 2..Len(history) :
        \A p \in Paths(history[k].tree) \cup Range(history[k].manifest)
                 \cup Paths(history[k].content) :
            ~InOutputFolder(p)

-----------------------------------------------------------------------------
(* C8 *)

\* A rule name without glob characters and without a separator.
Plain(name) ==
    \A i \in 1..Len(name) : Char(name, i) \notin {"*", "?", "[", "/"}

\* The filter has been applied to a path without hidden segment under one
\* rule that ends with the separator.
FolderRuleApplied ==
    /\ fresult # <<>>
    /\ Len(frules) = 1
    /\ endswith(frules[1], "/")
    /\ ~HasHiddenSegment(fpath)

\* C8, as claimed: under a rule that ends with the separator a path is
\* excluded exactly when one of its segments equals the rule without it.
C8_FolderRule ==
    FolderRuleApplied =>
        (fresult[1] <=> rstrip(frules[1], "/") \in Range(Segments(fpath)))

\* C8, amended: in code_combiner_02.py, under a rule that ends with the
\* separator a path is excluded exactly when one of its segments equals the
\* rule without it or the rule without it matches, as a glob, the path or its
\* last segment; for a rule without glob characters and inner separators that
\* is exactly when a segment equals it.  In code_combiner.py such a rule
\* excludes a path exactly when the last segment equals it (a file below the
\* directory is left out by pruning, not by the rule).
C8_FolderRuleOrGlob ==
    FolderRuleApplied =>
        \E name \in {rstrip(frules[1], "/")} :
            /\ variant = 2 =>
                  /\ fresult[1] <=>
                        \/ name \in Range(Segments(fpath))
                        \/ fnmatch(fpath, name)
                        \/ fnmatch(basename(fpath), name)
                  /\ Plain(name) =>
                        (fresult[1] <=> name \in Range(Segments(fpath)))
            /\ (variant = 1 /\ Plain(name)) =>
                  (fresult[1] <=> basename(fpath) = name)

\* Rule build/ applied to a/build/x.py by code_combiner_02.py: excluded.
C8_Witness ==
    /\ variant = 2
    /\ fpath = "a/build/x.py"
    /\ frules = <<"build/">>
    /\ fresult = <<TRUE>>

-----------------------------------------------------------------------------
(* C9 *)

\* The glob matches the path segment by segment.
ShellGlob(path, rule) ==
    /\ Len(Segments(path)) = Len(Segments(rule))
    /\ \A i \in 1..Len(Segments(path)) : fnmatch(Segments(path)[i], Segments(rule)[i])

\* C9: under a rule that does not end with the separator a path is excluded
\* whenever the glob matches the whole path or the last segment alone.
C9_GlobRule ==
    fresult # <<>> =>
        \A k \in 1..Len(frules) :
            ( /\ ~endswith(frules[k], "/")
              /\ \/ ShellGlob(fpath, frules[k])
                 \/ fnmatch(basename(fpath), frules[k])
                 \/ (variant = 2 /\ fnmatch(fpath, frules[k])) )
            => fresult[1]

\* Rule *.log applied to logs/app.log: excluded by its last segment.
C9_Witness ==
    /\ fpath = "logs/app.log"
    /\ frules = <<"*.log">>
    /\ fresult = <<TRUE>>

====
